---- MODULE Spec2Model ----
(***************************************************************************)
(* CloudFront / Lambda@Edge event data classes                             *)
(* (aws_lambda_powertools/utilities/data_classes/cloudfront_event.py).     *)
(*                                                                         *)
(* The caller's JSON-decoded payload is a nested mapping.  A view is a     *)
(* class together with a reference to one mapping inside the payload; the  *)
(* reference is modelled as the place of that mapping in the payload       *)
(* (record index and section), which is the same thing as long as no       *)
(* operation replaces a nested mapping, and none does: setters assign to   *)
(* keys of the leaf mapping the view holds.                                *)
(***************************************************************************)
EXTENDS Integers, Sequences, FiniteSets, TLC

VARIABLES
    payload,    \* the caller's mapping (borrowed by every view)
    opts,       \* class |-> its options object, set when the class is defined
    top,        \* the view the caller constructed
    view,       \* the view the caller currently operates on
    result,     \* outcome of the last operation
    writes,     \* number of setter calls that assigned so far
    parser,     \* the last call of a decorated handler or of parse
    inv         \* two invocations, each over a mapping of its own

vars == <<payload, opts, top, view, result, writes, parser, inv>>

(***************************************************************************)
(* Bounds of the model.                                                    *)
(***************************************************************************)
MaxRecords == 2
MaxWrites == 1

(***************************************************************************)
(* Python values.                                                          *)
(***************************************************************************)
None == "None"              \* Python's None
NoValue == "<no value>"     \* the operation raised: nothing was returned
Absent == "<absent>"        \* ghost: the key was not in the mapping

\* A Python dict: a function whose domain is its key set.
EmptyDict == [k \in {} |-> None]
Restrict(d, keys) == [k \in (DOMAIN d) \cap keys |-> d[k]]
DictSet(d, key, value) == [k \in (DOMAIN d) \cup {key} |-> IF k = key THEN value ELSE d[k]]

(***************************************************************************)
(* The four discriminators, and the classes of the module.                 *)
(***************************************************************************)
Events == {"viewer-request", "origin-request", "origin-response", "viewer-response"}

\* A discriminator a user-defined subclass may declare that is none of the four.
UnsupportedEvent == "viewer_request"

RequestClasses == {"CloudFrontViewerRequest", "CloudFrontOriginRequest"}
ResponseClasses == {"CloudFrontOriginResponse", "CloudFrontViewerResponse"}
ConfigClass == "CloudFrontConfiguration"
LeafClasses == RequestClasses \cup ResponseClasses \cup {ConfigClass}

RecordClasses ==
    {"CloudFrontRecord", "CloudFrontViewerRequestRecord", "CloudFrontOriginRequestRecord",
     "CloudFrontOriginResponseRecord", "CloudFrontViewerResponseRecord", "UserRecord"}

EventClasses ==
    {"CloudFrontEvent", "CloudFrontViewerRequestEvent", "CloudFrontOriginRequestEvent",
     "CloudFrontOriginResponseEvent", "CloudFrontViewerResponseEvent", "UserEvent"}

\* getattr(meta, "event", None) for the Meta of each record class.  The base
\* class's Meta declares no event; UserRecord is a subclass written by a user
\* with a discriminator that is not supported.
RecordMetaEvent(cls) ==
    CASE cls = "CloudFrontViewerRequestRecord" -> "viewer-request"
      [] cls = "CloudFrontOriginRequestRecord" -> "origin-request"
      [] cls = "CloudFrontOriginResponseRecord" -> "origin-response"
      [] cls = "CloudFrontViewerResponseRecord" -> "viewer-response"
      [] cls = "UserRecord" -> UnsupportedEvent
      [] OTHER -> None

\* getattr(meta, "event", None) for the Meta of each event class.
EventMetaEvent(cls) ==
    CASE cls = "CloudFrontViewerRequestEvent" -> "viewer-request"
      [] cls = "CloudFrontOriginRequestEvent" -> "origin-request"
      [] cls = "CloudFrontOriginResponseEvent" -> "origin-response"
      [] cls = "CloudFrontViewerResponseEvent" -> "viewer-response"
      [] cls = "UserEvent" -> UnsupportedEvent
      [] OTHER -> None

\* Mutant: the origin-response branch copied from the viewer-response branch
\* without changing the request type.
RecordOptionsOriginResponseSlip(event) ==
    IF event = "viewer-request"
    THEN [request_type |-> "CloudFrontViewerRequest", response_type |-> None]
    ELSE IF event = "origin-request"
    THEN [request_type |-> "CloudFrontOriginRequest", response_type |-> None]
    ELSE IF event = "origin-response"
    THEN [request_type |-> "CloudFrontViewerRequest", response_type |-> "CloudFrontOriginResponse"]
    ELSE IF event = "viewer-response"
    THEN [request_type |-> "CloudFrontViewerRequest", response_type |-> "CloudFrontViewerResponse"]
    ELSE [request_type |-> None, response_type |-> None]

\* Mutant: the viewer-response branch selects the origin request type.
RecordOptionsViewerResponseSlip(event) ==
    IF event = "viewer-request"
    THEN [request_type |-> "CloudFrontViewerRequest", response_type |-> None]
    ELSE IF event = "origin-request"
    THEN [request_type |-> "CloudFrontOriginRequest", response_type |-> None]
    ELSE IF event = "origin-response"
    THEN [request_type |-> "CloudFrontOriginRequest", response_type |-> "CloudFrontOriginResponse"]
    ELSE IF event = "viewer-response"
    THEN [request_type |-> "CloudFrontOriginRequest", response_type |-> "CloudFrontViewerResponse"]
    ELSE [request_type |-> None, response_type |-> None]

\* Mutant: an unknown discriminator falls back to the viewer-request types
\* instead of "no type configured".
RecordOptionsDefaultSlip(event) ==
    IF event = "origin-request"
    THEN [request_type |-> "CloudFrontOriginRequest", response_type |-> None]
    ELSE IF event = "origin-response"
    THEN [request_type |-> "CloudFrontOriginRequest", response_type |-> "CloudFrontOriginResponse"]
    ELSE IF event = "viewer-response"
    THEN [request_type |-> "CloudFrontViewerRequest", response_type |-> "CloudFrontViewerResponse"]
    ELSE [request_type |-> "CloudFrontViewerRequest", response_type |-> None]

\* CloudFrontRecordOptions.__init__
CloudFrontRecordOptions(event) ==
    IF event = "viewer-request"
    THEN [request_type |-> "CloudFrontViewerRequest", response_type |-> None]
    ELSE IF event = "origin-request"
    THEN [request_type |-> "CloudFrontOriginRequest", response_type |-> None]
    ELSE IF event = "origin-response"
    THEN [request_type |-> "CloudFrontOriginRequest", response_type |-> "CloudFrontOriginResponse"]
    ELSE IF event = "viewer-response"
    THEN [request_type |-> "CloudFrontViewerRequest", response_type |-> "CloudFrontViewerResponse"]
    ELSE [request_type |-> None, response_type |-> None]

\* Mutant: the origin-request branch selects the origin-response record type.
EventOptionsOriginRequestSlip(event) ==
    IF event = "viewer-request" THEN [record_type |-> "CloudFrontViewerRequestRecord"]
    ELSE IF event = "origin-request" THEN [record_type |-> "CloudFrontOriginResponseRecord"]
    ELSE IF event = "origin-response" THEN [record_type |-> "CloudFrontOriginResponseRecord"]
    ELSE IF event = "viewer-response" THEN [record_type |-> "CloudFrontViewerResponseRecord"]
    ELSE [record_type |-> None]

\* CloudFrontEventOptions.__init__
CloudFrontEventOptions(event) ==
    IF event = "viewer-request" THEN [record_type |-> "CloudFrontViewerRequestRecord"]
    ELSE IF event = "origin-request" THEN [record_type |-> "CloudFrontOriginRequestRecord"]
    ELSE IF event = "origin-response" THEN [record_type |-> "CloudFrontOriginResponseRecord"]
    ELSE IF event = "viewer-response" THEN [record_type |-> "CloudFrontViewerResponseRecord"]
    ELSE [record_type |-> None]

\* CloudFrontRecordMeta.__new__: class_.opts = class_.OPTIONS_CLASS(class_.Meta)
CloudFrontRecordMeta(cls) == CloudFrontRecordOptions(RecordMetaEvent(cls))

\* CloudFrontEventMeta.__new__: class_.opts = class_.OPTIONS_CLASS(class_.Meta)
CloudFrontEventMeta(cls) == CloudFrontEventOptions(EventMetaEvent(cls))

(***************************************************************************)
(* Payloads.                                                               *)
(***************************************************************************)
ConfigKeys == {"distributionDomainName", "distributionID", "distributionId", "eventType", "requestId"}
RequestKeys == {"clientIp", "headers", "method", "querystring", "uri", "body", "origin"}
ResponseKeys == {"body", "bodyEncoding", "headers", "status", "statusDescription"}
Sections == {"config", "request", "response"}

SectionKeys(sect) ==
    CASE sect = "config" -> ConfigKeys
      [] sect = "request" -> RequestKeys
      [] sect = "response" -> ResponseKeys

\* The values of a representative payload: one distinct value per key.
FixtureConfig ==
    [distributionDomainName |-> "d111111abcdef8.cloudfront.net",
     distributionID |-> "EDFDVBD6EXAMPLE",
     distributionId |-> "EDFDVBD6EXAMPLE-Id",
     eventType |-> "origin-response",
     requestId |-> "4TyzHTaYWb1GX1qTfsHhEqV6HUDd_BzoBZnwfnvQc_1oF26ClkoUSEQ=="]

FixtureRequest ==
    [clientIp |-> "203.0.113.178", headers |-> "<request headers>", method |-> "GET",
     querystring |-> "", uri |-> "/", body |-> "<request body>", origin |-> "<origin>"]

FixtureResponse ==
    [body |-> "<response body>", bodyEncoding |-> "text", headers |-> "<response headers>",
     status |-> "200", statusDescription |-> "OK"]

Fixture(sect) ==
    CASE sect = "config" -> FixtureConfig
      [] sect = "request" -> FixtureRequest
      [] sect = "response" -> FixtureResponse

\* The values a caller passes to a setter.
WriteValues == {"text", "base64", "gzip"}

\* A complete record, and the record shapes of the navigation payloads: no
\* "cf" key, or a "cf" mapping holding any subset of the three sections, the
\* request with or without an "origin" key.
CfOf(sects, withOrigin) ==
    [s \in sects |->
        IF s = "request" /\ ~withOrigin
        THEN Restrict(FixtureRequest, RequestKeys \ {"origin"})
        ELSE Fixture(s)]

FullRecord == [cf |-> CfOf(Sections, TRUE)]

RecordShapes ==
    {EmptyDict} \cup {[cf |-> CfOf(sects, o)] : sects \in SUBSET Sections, o \in BOOLEAN}

\* Navigation payloads: no "Records" key, or up to MaxRecords records of
\* which at most one departs from the complete record.
NavPayloads ==
    {EmptyDict} \cup
    {[Records |-> [i \in 1..n |-> FullRecord]] : n \in 0..MaxRecords} \cup
    {[Records |-> [i \in 1..n |-> IF i = j THEN shape ELSE FullRecord]] :
        n \in 1..MaxRecords, j \in 1..MaxRecords, shape \in RecordShapes}

\* Leaf payloads: one record holding one section, any subset of whose keys
\* is present.
LeafPayload(sect, keys) ==
    [Records |-> <<[cf |-> [s \in {sect} |-> Restrict(Fixture(sect), keys)]]>>]

(***************************************************************************)
(* Views.                                                                  *)
(***************************************************************************)
View(cls, rec, sect) == [cls |-> cls, rec |-> rec, sect |-> sect]

\* The mapping a view holds (DictWrapper._data).
Data(v) ==
    CASE v.sect = "event" -> payload
      [] v.sect = "record" -> payload["Records"][v.rec]
      [] OTHER -> payload["Records"][v.rec]["cf"][v.sect]

\* The outcome of an operation `op` on the view `on`: kind is "ok" or the name
\* of the exception raised; value is what was returned (for an accessor that
\* returns a view, the class of that view).  call tells a property's getter
\* ("get") from its setter ("set") and from the constructor ("new"); arg and
\* old are kept for setters: the value passed, and what the key held before.
Result(op, on, kind, value) ==
    [call |-> "get", op |-> op, on |-> on, kind |-> kind, value |-> value,
     arg |-> NoValue, old |-> NoValue, msg |-> <<>>]

Raise(op, on, kind, msg) ==
    [call |-> "get", op |-> op, on |-> on, kind |-> kind, value |-> NoValue,
     arg |-> NoValue, old |-> NoValue, msg |-> msg]

(***************************************************************************)
(* DictWrapper (utilities/data_classes/common.py): a read-only Mapping     *)
(* over self._data.                                                        *)
(***************************************************************************)
\* DictWrapper.__contains__
Contains(d, key) == key \in DOMAIN d

\* DictWrapper.__getitem__: self._data[key], KeyError when the key is absent
GetItem(op, on, d, key) ==
    IF key \in DOMAIN d THEN Result(op, on, "ok", d[key]) ELSE Raise(op, on, "KeyError", <<key>>)

(***************************************************************************)
(* CloudFrontConfiguration                                                 *)
(***************************************************************************)
distribution_domain_name(on, d) == GetItem("distribution_domain_name", on, d, "distributionDomainName")

\* Mutant: the two keys are tried in the other order.
distribution_id_prefers_Id(on, d) ==
    IF Contains(d, "distributionId")
    THEN GetItem("distribution_id", on, d, "distributionId")
    ELSE GetItem("distribution_id", on, d, "distributionID")

distribution_id(on, d) ==
    IF Contains(d, "distributionID")
    THEN GetItem("distribution_id", on, d, "distributionID")
    ELSE GetItem("distribution_id", on, d, "distributionId")

\* Mutant: the getter reads its neighbour's key.
event_type_reads_request_id(on, d) == GetItem("event_type", on, d, "requestId")

event_type(on, d) == GetItem("event_type", on, d, "eventType")

request_id(on, d) == GetItem("request_id", on, d, "requestId")

(***************************************************************************)
(* CloudFrontRequest, CloudFrontViewerRequest, CloudFrontOriginRequest     *)
(***************************************************************************)
client_ip(on, d) == GetItem("client_ip", on, d, "clientIp")

request_headers(on, d) == GetItem("headers", on, d, "headers")

method(on, d) == GetItem("method", on, d, "method")

querystring(on, d) == GetItem("querystring", on, d, "querystring")

querystring_setter(d, value) == DictSet(d, "querystring", value)

uri(on, d) == GetItem("uri", on, d, "uri")

\* Mutant: the setter assigns to another key than the getter reads.
uri_setter_path(d, value) == DictSet(d, "path", value)

uri_setter(d, value) == DictSet(d, "uri", value)

\* Mutant: the request's body defaults to None like the response's.
request_body_defaults(on, d) ==
    IF Contains(d, "body") THEN GetItem("body", on, d, "body")
    ELSE Result("body", on, "ok", None)

request_body(on, d) == GetItem("body", on, d, "body")

\* Mutant: the viewer request's origin reads the key like the origin request's.
viewer_request_origin_reads(on, d) == GetItem("origin", on, d, "origin")

\* CloudFrontViewerRequest.origin
viewer_request_origin(on, d) ==
    Raise("origin", on, "TypeError", <<"This is not an origin request event.">>)

\* CloudFrontOriginRequest.origin
origin_request_origin(on, d) == GetItem("origin", on, d, "origin")

\* The origin property the class of the view defines.
origin(on, d) ==
    IF on.cls = "CloudFrontViewerRequest" THEN viewer_request_origin(on, d)
    ELSE origin_request_origin(on, d)

(***************************************************************************)
(* CloudFrontResponse, CloudFrontOriginResponse, CloudFrontViewerResponse  *)
(***************************************************************************)
response_body(on, d) ==
    IF Contains(d, "body") THEN GetItem("body", on, d, "body")
    ELSE Result("body", on, "ok", None)

body_setter(d, value) == DictSet(d, "body", value)

body_encoding(on, d) ==
    IF Contains(d, "bodyEncoding") THEN GetItem("body_encoding", on, d, "bodyEncoding")
    ELSE Result("body_encoding", on, "ok", None)

\* Mutant: the membership test lets a third encoding through.
body_encoding_rejects_fewer(value) == value \notin {"text", "base64", "gzip"}

\* if value not in ["text", "base64"]: raise ValueError(...)
body_encoding_rejects(value) == value \notin {"text", "base64"}

\* f"got {value!r}, must be either 'text' or 'base64'"
body_encoding_message(value) == <<"got", value, "must be either", "text", "or", "base64">>

body_encoding_setter(d, value) == DictSet(d, "bodyEncoding", value)

\* Mutant: the value is assigned before it is checked.
body_encoding_refused_late(d, value) == body_encoding_setter(d, value)

\* The mapping after a refused assignment: the check comes first, and the
\* raise leaves before the assignment.
body_encoding_refused(d, value) == d

response_headers(on, d) == GetItem("headers", on, d, "headers")

status(on, d) == GetItem("status", on, d, "status")

status_setter(d, value) == DictSet(d, "status", value)

status_description(on, d) == GetItem("status_description", on, d, "statusDescription")

\* Mutant: the setter assigns to the property's name, not to the payload's key.
status_description_setter_snake(d, value) == DictSet(d, "status_description", value)

status_description_setter(d, value) == DictSet(d, "statusDescription", value)

(***************************************************************************)
(* The properties each leaf class defines.                                 *)
(***************************************************************************)
\* Mutant: the response's body getter stores its default (setdefault).
AfterGetStoresDefault(on, d, name) ==
    IF on.cls \in ResponseClasses /\ name = "body" /\ ~Contains(d, "body")
    THEN DictSet(d, "body", None)
    ELSE d

\* The view's mapping after a property getter ran: no getter assigns to it.
AfterGet(on, d, name) == d

Getters(cls) ==
    IF cls = ConfigClass
    THEN {"distribution_domain_name", "distribution_id", "event_type", "request_id"}
    ELSE IF cls \in RequestClasses
    THEN {"client_ip", "headers", "method", "querystring", "uri", "body", "origin"}
    ELSE IF cls \in ResponseClasses
    THEN {"body", "body_encoding", "headers", "status", "status_description"}
    ELSE {}

Setters(cls) ==
    IF cls \in RequestClasses THEN {"querystring", "uri"}
    ELSE IF cls \in ResponseClasses THEN {"body", "body_encoding", "status", "status_description"}
    ELSE {}

\* Attribute lookup of a property getter on a leaf view.
Get(on, d, name) ==
    IF on.cls = ConfigClass
    THEN CASE name = "distribution_domain_name" -> distribution_domain_name(on, d)
           [] name = "distribution_id" -> distribution_id(on, d)
           [] name = "event_type" -> event_type(on, d)
           [] name = "request_id" -> request_id(on, d)
    ELSE IF on.cls \in RequestClasses
    THEN CASE name = "client_ip" -> client_ip(on, d)
           [] name = "headers" -> request_headers(on, d)
           [] name = "method" -> method(on, d)
           [] name = "querystring" -> querystring(on, d)
           [] name = "uri" -> uri(on, d)
           [] name = "body" -> request_body(on, d)
           [] name = "origin" -> origin(on, d)
    ELSE CASE name = "body" -> response_body(on, d)
           [] name = "body_encoding" -> body_encoding(on, d)
           [] name = "headers" -> response_headers(on, d)
           [] name = "status" -> status(on, d)
           [] name = "status_description" -> status_description(on, d)

\* Attribute lookup of a property setter on a leaf view: the mapping after
\* the assignment.
Set(on, d, name, value) ==
    IF on.cls \in RequestClasses
    THEN CASE name = "querystring" -> querystring_setter(d, value)
           [] name = "uri" -> uri_setter(d, value)
    ELSE CASE name = "body" -> body_setter(d, value)
           [] name = "body_encoding" -> body_encoding_setter(d, value)
           [] name = "status" -> status_setter(d, value)
           [] name = "status_description" -> status_description_setter(d, value)

\* The key a setter assigns to (ghost: used to record what the key held).
SetterKey(name) ==
    CASE name = "body_encoding" -> "bodyEncoding"
      [] name = "status_description" -> "statusDescription"
      [] OTHER -> name

(***************************************************************************)
(* CloudFrontRecord                                                        *)
(***************************************************************************)
\* self["cf"][sect]
CfSection(op, on, d, sect) ==
    IF ~Contains(d, "cf") THEN Raise(op, on, "KeyError", <<"cf">>)
    ELSE IF sect \notin DOMAIN d["cf"] THEN Raise(op, on, "KeyError", <<sect>>)
    ELSE Result(op, on, "ok", None)

cf_config(on, d) ==
    LET r == CfSection("cf_config", on, d, "config")
    IN IF r.kind = "ok" THEN Result("cf_config", on, "ok", ConfigClass) ELSE r

\* Mutant: the request type is selected by the payload's own eventType.
cf_request_by_payload(on, d) ==
    LET r == CfSection("cf_request", on, d, "request")
        event == IF r.kind = "ok" /\ Contains(d["cf"], "config")
                    /\ Contains(d["cf"]["config"], "eventType")
                 THEN d["cf"]["config"]["eventType"]
                 ELSE RecordMetaEvent(on.cls)
    IN IF CloudFrontRecordOptions(event).request_type = None
       THEN Raise("cf_request", on, "NotImplementedError", <<>>)
       ELSE IF r.kind = "ok"
       THEN Result("cf_request", on, "ok", CloudFrontRecordOptions(event).request_type)
       ELSE r

cf_request(on, d) ==
    IF opts[on.cls].request_type = None
    THEN Raise("cf_request", on, "NotImplementedError", <<>>)
    ELSE LET r == CfSection("cf_request", on, d, "request")
         IN IF r.kind = "ok" THEN Result("cf_request", on, "ok", opts[on.cls].request_type) ELSE r

\* Mutant: the section is read before the configuration is checked.
cf_response_reads_first(on, d) ==
    LET r == CfSection("cf_response", on, d, "response")
    IN IF r.kind # "ok" THEN r
       ELSE IF opts[on.cls].response_type = None
       THEN Raise("cf_response", on, "NotImplementedError", <<>>)
       ELSE Result("cf_response", on, "ok", opts[on.cls].response_type)

cf_response(on, d) ==
    IF opts[on.cls].response_type = None
    THEN Raise("cf_response", on, "NotImplementedError", <<>>)
    ELSE LET r == CfSection("cf_response", on, d, "response")
         IN IF r.kind = "ok" THEN Result("cf_response", on, "ok", opts[on.cls].response_type) ELSE r

(***************************************************************************)
(* CloudFrontEvent                                                         *)
(***************************************************************************)
\* Mutant: the index is off by one.
RecordIndexOffByOne == 1 + 1

\* The index (from 1) of the element self["Records"][0] selects.
RecordIndex == 1

record(on, d) ==
    IF opts[on.cls].record_type = None
    THEN Raise("record", on, "NotImplementedError", <<>>)
    ELSE IF ~Contains(d, "Records") THEN Raise("record", on, "KeyError", <<"Records">>)
    ELSE IF Len(d["Records"]) < RecordIndex THEN Raise("record", on, "IndexError", <<>>)
    ELSE Result("record", on, "ok", opts[on.cls].record_type)

\* event.records: CloudFrontEvent defines `record` only, and neither it nor
\* CloudFrontEventABC defines an attribute named `records`, so the lookup
\* fails whatever the payload holds.
records(on, d) == Raise("records", on, "AttributeError", <<"records">>)

(***************************************************************************)
(* The parser (utilities/parser): event_parser, parse, envelopes and the   *)
(* validation library they delegate to.  Python values carry their type;   *)
(* the text of every value is a string.                                    *)
(***************************************************************************)
PyInt(text) == [t |-> "int", v |-> text]
PyStr(text) == [t |-> "str", v |-> text]
PyDateTime(text) == [t |-> "datetime", v |-> text]
PyList(text) == [t |-> "list", v |-> text]
PyDict(text) == [t |-> "dict", v |-> text]
PyNone == [t |-> "none", v |-> "null"]

\* Strings that int() reads, and strings in ISO 8601 format.
NumericStrings == {"30", "123", "7"}
IsoStrings == {"2026-11-03T10:00:00"}

\* json.dumps of one value: the JSON kind it is written as, and its text.  A
\* datetime is written as a string (isoformat).
json_dumps_value(x) ==
    [kind |-> CASE x.t = "int" -> "number"
                [] x.t \in {"str", "datetime"} -> "string"
                [] x.t = "list" -> "array"
                [] x.t = "dict" -> "object"
                [] x.t = "none" -> "null",
     text |-> x.v]

\* json.loads of one value.
json_loads_value(tok) ==
    CASE tok.kind = "number" -> PyInt(tok.text)
      [] tok.kind = "string" -> PyStr(tok.text)
      [] tok.kind = "array" -> PyList(tok.text)
      [] tok.kind = "object" -> PyDict(tok.text)
      [] tok.kind = "null" -> PyNone

RECURSIVE json_dumps(_)
\* json.dumps of a mapping: the members of a JSON object, one after another.
json_dumps(m) ==
    IF DOMAIN m = {} THEN <<>>
    ELSE LET k == CHOOSE key \in DOMAIN m : TRUE
         IN <<[key |-> k, value |-> json_dumps_value(m[k])]>>
                \o json_dumps(Restrict(m, DOMAIN m \ {k}))

\* json.loads of the text of a JSON object.
json_loads(text) ==
    [k \in {text[i].key : i \in DOMAIN text} |->
        json_loads_value((CHOOSE mem \in {text[i] : i \in DOMAIN text} : mem.key = k).value)]

\* An event handed to the parser: a decoded mapping, or a str holding JSON.
Mapping(m) == [t |-> "dict", body |-> m]
Encoded(text) == [t |-> "str", body |-> text]

\* isinstance(event, str)
IsEncoded(event) == event.t = "str"

(***************************************************************************)
(* Models: the fields a schema declares.  alias is the key the field is    *)
(* read from (the field's name when it declares none).                     *)
(***************************************************************************)
Field(name, alias, type, optional) ==
    [name |-> name, alias |-> alias, type |-> type, optional |-> optional]

\* Mutant: the model is configured without populate_by_name.
EventBridgeModel_populate_by_name_off == FALSE

\* model_config = ConfigDict(populate_by_name=True)
EventBridgeModel_populate_by_name == TRUE

EventBridgeModel ==
    [populate_by_name |-> EventBridgeModel_populate_by_name,
     fields |-> <<Field("version", "version", "str", FALSE),
                 Field("id", "id", "str", FALSE),
                 Field("source", "source", "str", FALSE),
                 Field("account", "account", "str", FALSE),
                 Field("time", "time", "datetime", FALSE),
                 Field("region", "region", "str", FALSE),
                 Field("resources", "resources", "list", FALSE),
                 Field("detail_type", "detail-type", "str", FALSE),
                 Field("detail", "detail", "any", FALSE),
                 Field("replay_name", "replay-name", "str", TRUE)>>]

\* class StrictModel(pydantic.BaseModel): age: int; name: str
StrictModel ==
    [populate_by_name |-> FALSE,
     fields |-> <<Field("age", "age", "int", FALSE), Field("name", "name", "str", FALSE)>>]

\* class Shopping(BaseModel): id: int; description: str
Shopping ==
    [populate_by_name |-> FALSE,
     fields |-> <<Field("id", "id", "int", FALSE),
                 Field("description", "description", "str", FALSE)>>]

ModelNames == {"StrictModel", "Shopping", "EventBridgeModel"}

\* What a `model` argument may be besides a model: not given, or one of the
\* values that are no schema.
NotGiven == "<not given>"
InvalidModels == {"False", "[]", "()"}

SchemaOf(model) ==
    CASE model = "StrictModel" -> StrictModel
      [] model = "Shopping" -> Shopping
      [] model = "EventBridgeModel" -> EventBridgeModel

(***************************************************************************)
(* The validation library (pydantic), in its default lax mode.             *)
(***************************************************************************)
\* The key of the mapping m a field is read from, None when there is none:
\* its alias, or its name when the model allows population by name.
FieldKey(schema, f, m) ==
    IF f.alias \in DOMAIN m THEN f.alias
    ELSE IF schema.populate_by_name /\ f.name \in DOMAIN m THEN f.name
    ELSE None

\* The type of the error the value x raises for a field of type `type`, "ok"
\* when it is accepted.
TypeError(type, optional, x) ==
    IF x.t = "none" THEN (IF optional \/ type = "any" THEN "ok" ELSE type \o "_type")
    ELSE CASE type = "int" ->
                IF x.t = "int" THEN "ok"
                ELSE IF x.t = "str"
                THEN (IF x.v \in NumericStrings THEN "ok" ELSE "int_parsing")
                ELSE "int_type"
           [] type = "str" -> IF x.t = "str" THEN "ok" ELSE "string_type"
           [] type = "datetime" ->
                IF x.t \in {"datetime", "int"} THEN "ok"
                ELSE IF x.t = "str"
                THEN (IF x.v \in IsoStrings THEN "ok" ELSE "datetime_from_date_parsing")
                ELSE "datetime_type"
           [] type = "list" -> IF x.t = "list" THEN "ok" ELSE "list_type"
           [] type = "any" -> "ok"

\* The value of an accepted field: the input coerced to the field's type.
Coerced(type, x) ==
    IF x.t = "none" \/ type = "any" THEN x
    ELSE CASE type = "int" -> PyInt(x.v)
           [] type = "str" -> PyStr(x.v)
           [] type = "datetime" -> PyDateTime(x.v)
           [] type = "list" -> PyList(x.v)

\* Whether the field f fails over the mapping m: a required field is
\* missing, or the value found is not of the field's type.
FieldFails(schema, f, m) ==
    IF FieldKey(schema, f, m) = None THEN ~f.optional
    ELSE TypeError(f.type, f.optional, m[FieldKey(schema, f, m)]) # "ok"

\* The error line of a failing field: where, and which constraint.
FieldError(schema, f, m) ==
    LET key == FieldKey(schema, f, m)
    IN IF key = None
       THEN [loc |-> f.alias, field |-> f.name, type |-> "missing"]
       ELSE [loc |-> key, field |-> f.name, type |-> TypeError(f.type, f.optional, m[key])]

\* Mutant: validation stops at the first field in error.
FieldErrorsFirstOnly(schema, m) ==
    LET failing == {i \in DOMAIN schema.fields : FieldFails(schema, schema.fields[i], m)}
    IN {FieldError(schema, schema.fields[i], m) :
            i \in {j \in failing : \A k \in failing : j <= k}}

\* The errors of all fields: every field is validated, failing or not.
FieldErrors(schema, m) ==
    {FieldError(schema, schema.fields[i], m) :
        i \in {j \in DOMAIN schema.fields : FieldFails(schema, schema.fields[j], m)}}

\* The outcome of a validation: the instance, or the error with its lines.
Validated(instance) == [kind |-> "ok", instance |-> instance, errors |-> {}]
Failed(kind, errors) == [kind |-> kind, instance |-> EmptyDict, errors |-> errors]

\* TypeAdapter(model).validate_python(m)
validate_python(model, m) ==
    LET schema == SchemaOf(model)
        errors == FieldErrors(schema, m)
    IN IF errors # {} THEN Failed("ValidationError", errors)
       ELSE Validated([n \in {schema.fields[i].name : i \in DOMAIN schema.fields} |->
                LET f == schema.fields[CHOOSE i \in DOMAIN schema.fields :
                                            schema.fields[i].name = n]
                    key == FieldKey(schema, f, m)
                IN IF key = None THEN PyNone ELSE Coerced(f.type, m[key])])

\* TypeAdapter(model).validate_json(text)
validate_json(model, text) == validate_python(model, json_loads(text))

\* BaseModel.model_dump_json(): the instance's fields under their names.
model_dump_json(instance) == json_dumps(instance)

(***************************************************************************)
(* parse, the SQS envelope and the event_parser decorator.                 *)
(***************************************************************************)
\* Mutant: an encoded event is validated as it is, without decoding.
DecodedAsIs(event) == IF IsEncoded(event) THEN EmptyDict ELSE event.body

\* The mapping validation runs on: validate_json decodes a str event first.
Decoded(event) == IF IsEncoded(event) THEN json_loads(event.body) ELSE event.body

\* Validation of an event, or of a record's body, against a model.
parse_model(event, model) == validate_python(model, Decoded(event))

RECURSIVE parse_records(_, _)
\* [self._parse(data=record.body, model=model) for record in Records]: the
\* instances so far, or the failure of the first record that fails.
parse_records(recs, model) ==
    IF recs = <<>> THEN Validated(<<>>)
    ELSE LET first == parse_model(Encoded(Head(recs).body), model)
             rest == parse_records(Tail(recs), model)
         IN IF first.kind # "ok" THEN first
            ELSE IF rest.kind # "ok" THEN rest
            ELSE Validated(<<first.instance>> \o rest.instance)

\* SqsEnvelope.parse(data, model)
SqsEnvelope(data, model) == parse_records(data.body["Records"], model)

NoEnvelope == "None"
Envelopes == {NoEnvelope, "SqsEnvelope"}

\* parse(event, model, envelope): a model that is no schema is refused, with
\* or without envelope.
parse(event, model, envelope) ==
    IF model \notin ModelNames THEN Failed("InvalidModelTypeError", {})
    ELSE IF envelope = "SqsEnvelope" THEN SqsEnvelope(event, model)
    ELSE parse_model(event, model)

\* Mutant: the schema is looked up under the parameter name "event".
HintedModelByName(handler) == IF handler.param = "event" THEN handler.hint ELSE None

\* The type hint of the handler's first parameter, None when it has none.
HintedModel(handler) == handler.hint

\* Mutant: a model that is no schema counts as not given.
ResolvedModelFalsy(handler) ==
    IF handler.model \in InvalidModels \cup {NotGiven} THEN HintedModel(handler) ELSE handler.model

\* The model event_parser validates with: the `model` argument when it is
\* given, else the type hint.
ResolvedModel(handler) ==
    IF handler.model = NotGiven THEN HintedModel(handler) ELSE handler.model

\* A call of a decorated handler, or of parse (handler.via = "parse"): what
\* was passed, the outcome of the validation, and whether the handler's body
\* ran and with what.
Call(handler, event, envelope, outcome, ran) ==
    [handler |-> handler, event |-> event, envelope |-> envelope, outcome |-> outcome,
     ran |-> ran, received |-> IF ran THEN outcome.instance ELSE EmptyDict]

\* event_parser: the wrapper around the handler.
event_parser(handler, event, envelope) ==
    IF ResolvedModel(handler) = None
    THEN Call(handler, event, envelope, Failed("InvalidModelTypeError", {}), FALSE)
    ELSE LET outcome == parse(event, ResolvedModel(handler), envelope)
         IN Call(handler, event, envelope, outcome, outcome.kind = "ok")

(***************************************************************************)
(* Calls of the parser.  The caller decorates a handler (its `model`       *)
(* argument, the type hint and the name of its first parameter) and calls  *)
(* it with an event, or calls parse itself.                                *)
(***************************************************************************)
MaxBodies == 2

AgeValues == {PyInt("30"), PyStr("30"), PyStr("not_a_number")}
NameValues == {PyStr("Ann"), PyInt("123")}

\* Events for StrictModel: each field right, wrong or missing.
StrictMappings ==
    {[age |-> a, name |-> n] : a \in AgeValues, n \in NameValues}
        \cup {[age |-> a] : a \in AgeValues} \cup {[name |-> n] : n \in NameValues}

\* Events for Shopping, and one that fits no model.
ShoppingMappings ==
    {[id |-> i, description |-> PyStr("really nice blouse")] :
        i \in {PyInt("7"), PyStr("forgot-the-id")}}
        \cup {[project |-> PyStr("powertools")]}

\* EventBridgeModel(version="version", ..., detail_type="MyEvent", ...): the
\* instance, its fields under their names.
EventBridgeInstance ==
    [version |-> PyStr("version"), id |-> PyStr("id"), source |-> PyStr("source"),
     account |-> PyStr("account"), time |-> PyDateTime("2026-11-03T10:00:00"),
     region |-> PyStr("region"), resources |-> PyList("[]"),
     detail_type |-> PyStr("MyEvent"), detail |-> PyDict("{key: value}"),
     replay_name |-> PyNone]

\* The same event as EventBridge delivers it, its fields under their aliases.
EventBridgeDelivered ==
    [k \in (DOMAIN EventBridgeInstance \ {"detail_type", "replay_name"})
            \cup {"detail-type", "replay-name"} |->
        CASE k = "detail-type" -> EventBridgeInstance["detail_type"]
          [] k = "replay-name" -> PyStr("replay")
          [] OTHER -> EventBridgeInstance[k]]

\* Events for EventBridgeModel: by name, by alias, and with a field wrong or
\* missing.
EventBridgeMappings ==
    {EventBridgeInstance, EventBridgeDelivered,
     DictSet(EventBridgeInstance, "version", PyInt("7")),
     Restrict(EventBridgeInstance, DOMAIN EventBridgeInstance \ {"detail_type"})}

InputMappings == StrictMappings \cup ShoppingMappings \cup EventBridgeMappings

\* An SQS record whose body is the JSON text of the mapping m.
SqsRecord(m) == [messageId |-> "19dd0b57-b21e-4ac1-bd88-01bbb068cb78", body |-> json_dumps(m)]

\* SQS events: up to MaxBodies records.
SqsEvents ==
    UNION {{Mapping([Records |-> [i \in 1..n |-> SqsRecord(ms[i])]]) :
                ms \in [1..n -> EventBridgeMappings]} : n \in 0..MaxBodies}

\* The events a caller passes: a mapping or its JSON text without envelope,
\* an SQS event with the SQS envelope.
EventsFor(envelope) ==
    IF envelope = "SqsEnvelope" THEN SqsEvents
    ELSE {Mapping(m) : m \in InputMappings}

Handlers ==
    [via : {"event_parser"}, model : {NotGiven} \cup InvalidModels \cup ModelNames,
     hint : {None} \cup ModelNames, param : {"event", "evt"}]

\* No call was made.
NoCall ==
    Call([via |-> "none", model |-> NotGiven, hint |-> None, param |-> "event"],
         Mapping(EmptyDict), NoEnvelope, Failed("none", {}), FALSE)

(***************************************************************************)
(* Two invocations.  Each wraps a record mapping of its own in a record    *)
(* view and works on it through the views it obtains; the two take their   *)
(* steps in any order.                                                     *)
(***************************************************************************)
Invocations == {1, 2}

\* The record classes the first invocation uses: the four configured ones;
\* and those the second uses: one without and one with a response.
InvocationClasses == {c \in RecordClasses : RecordMetaEvent(c) \in Events}
OtherInvocationClasses == {"CloudFrontViewerRequestRecord", "CloudFrontOriginResponseRecord"}

\* Mutant: the mapping is kept in an attribute of the class, so every view
\* writes to the mapping of the first.
SelfDataShared(i) == IF i > 1 THEN 1 ELSE i

\* self._data of the views of invocation i: the mapping the invocation
\* wrapped (an attribute of the instance).
SelfData(i) == i

\* No invocation was started.
NoInvocations ==
    [data |-> <<>>, alone |-> <<>>, rec |-> <<>>, held |-> <<>>, who |-> 0,
     last |-> Result("none", View(None, 0, "none"), "ok", None)]

\* Two invocations were started with the record classes c1 and c2, each
\* over its own copy of the complete record.  alone is what each mapping
\* would be had its invocation run alone.
Started(c1, c2) ==
    [data |-> <<FullRecord, FullRecord>>, alone |-> <<FullRecord, FullRecord>>,
     rec |-> <<View(c1, 1, "record"), View(c2, 2, "record")>>,
     held |-> <<View(c1, 1, "record"), View(c2, 2, "record")>>, who |-> 0,
     last |-> Result("none", View(None, 0, "none"), "ok", None)]

\* record.cf_config, record.cf_request, record.cf_response
SectionView(on, d, sect) ==
    CASE sect = "config" -> cf_config(on, d)
      [] sect = "request" -> cf_request(on, d)
      [] sect = "response" -> cf_response(on, d)

\* The opts class attribute of every record and event class, as the
\* metaclasses set it when the class statement runs.
ClassOpts ==
    [c \in RecordClasses \cup EventClasses |->
        IF c \in RecordClasses THEN CloudFrontRecordMeta(c) ELSE CloudFrontEventMeta(c)]

Init ==
    /\ opts = ClassOpts
    /\ \/ \E p \in NavPayloads, c \in EventClasses :
            /\ payload = p
            /\ top = View(c, 0, "event")
       \/ \E p \in NavPayloads, c \in RecordClasses :
            /\ payload = p
            /\ "Records" \in DOMAIN p
            /\ \E i \in 1..Len(p["Records"]) :
                /\ \A k \in 1..Len(p["Records"]) : k # i => p["Records"][k] = FullRecord
                /\ top = View(c, i, "record")
       \/ \E c \in LeafClasses :
            LET sect == IF c \in RequestClasses THEN "request"
                        ELSE IF c \in ResponseClasses THEN "response" ELSE "config"
            IN \E keys \in SUBSET SectionKeys(sect) :
                /\ payload = LeafPayload(sect, keys)
                /\ top = View(c, 1, sect)
    /\ view = top
    /\ result = [Result("__init__", top, "ok", top.cls) EXCEPT !.call = "new"]
    /\ writes = 0
    /\ parser = NoCall
    /\ inv = NoInvocations

(***************************************************************************)
(* The caller's operations.  The caller holds the view it constructed      *)
(* (top) and the view it obtained last (view), and operates on either.     *)
(***************************************************************************)
Held == {top, view}

\* event.record
AccessRecord ==
    \E on \in Held :
        /\ on.sect = "event"
        /\ LET r == record(on, Data(on))
           IN /\ result' = r
              /\ view' = IF r.kind = "ok" THEN View(r.value, RecordIndex, "record") ELSE view
        /\ UNCHANGED <<payload, opts, top, writes, parser, inv>>

\* record.cf_config
AccessCfConfig ==
    \E on \in Held :
        /\ on.sect = "record"
        /\ LET r == cf_config(on, Data(on))
           IN /\ result' = r
              /\ view' = IF r.kind = "ok" THEN View(r.value, on.rec, "config") ELSE view
        /\ UNCHANGED <<payload, opts, top, writes, parser, inv>>

\* record.cf_request
AccessCfRequest ==
    \E on \in Held :
        /\ on.sect = "record"
        /\ LET r == cf_request(on, Data(on))
           IN /\ result' = r
              /\ view' = IF r.kind = "ok" THEN View(r.value, on.rec, "request") ELSE view
        /\ UNCHANGED <<payload, opts, top, writes, parser, inv>>

\* record.cf_response
AccessCfResponse ==
    \E on \in Held :
        /\ on.sect = "record"
        /\ LET r == cf_response(on, Data(on))
           IN /\ result' = r
              /\ view' = IF r.kind = "ok" THEN View(r.value, on.rec, "response") ELSE view
        /\ UNCHANGED <<payload, opts, top, writes, parser, inv>>

\* event.records
AccessRecords ==
    \E on \in Held :
        /\ on.sect = "event"
        /\ result' = records(on, Data(on))
        /\ UNCHANGED <<payload, opts, top, view, writes, parser, inv>>

ReadProperty ==
    \E on \in Held :
        /\ on.sect \in Sections
        /\ \E name \in Getters(on.cls) :
            /\ result' = Get(on, Data(on), name)
            /\ payload' = [payload EXCEPT !["Records"][on.rec]["cf"][on.sect] =
                                AfterGet(on, Data(on), name)]
        /\ UNCHANGED <<opts, top, view, writes, parser, inv>>

\* leaf.<name> = value
WriteProperty ==
    \E on \in Held :
        /\ on.sect \in Sections
        /\ \E name \in Setters(on.cls), value \in WriteValues :
            LET d == Data(on)
                old == IF SetterKey(name) \in DOMAIN d THEN d[SetterKey(name)] ELSE Absent
            IN IF name = "body_encoding" /\ body_encoding_rejects(value)
               THEN /\ result' = [Raise(name, on, "ValueError", body_encoding_message(value))
                                    EXCEPT !.call = "set", !.arg = value, !.old = old]
                    /\ payload' = [payload EXCEPT !["Records"][on.rec]["cf"][on.sect] =
                                        body_encoding_refused(d, value)]
                    /\ UNCHANGED writes
               ELSE /\ writes < MaxWrites
                    /\ payload' = [payload EXCEPT !["Records"][on.rec]["cf"][on.sect] =
                                        Set(on, d, name, value)]
                    /\ result' = [Result(name, on, "ok", None)
                                    EXCEPT !.call = "set", !.arg = value, !.old = old]
                    /\ writes' = writes + 1
        /\ UNCHANGED <<opts, top, view, parser, inv>>

Next ==
    \/ AccessRecord
    \/ AccessRecords
    \/ AccessCfConfig
    \/ AccessCfRequest
    \/ AccessCfResponse
    \/ ReadProperty
    \/ WriteProperty

Spec == Init /\ [][Next]_vars

(***************************************************************************)
(* The parser's operations, on their own: the views play no part.          *)
(***************************************************************************)
cfvars == <<payload, opts, top, view, result, writes>>

\* Calls are synchronous and share no state: one is made when the last has
\* returned or raised.
Idle == parser.handler.via = "none"

\* handler(event, context) on a handler decorated with event_parser.
InvokeHandler ==
    \E handler \in Handlers, envelope \in Envelopes :
        \E given \in EventsFor(envelope), asText \in BOOLEAN :
            /\ Idle
            /\ asText => envelope = NoEnvelope
            /\ LET event == IF asText THEN Encoded(json_dumps(given.body)) ELSE given
               IN parser' = event_parser(handler, event, envelope)
            /\ UNCHANGED <<cfvars, inv>>

\* parse(event, model, envelope)
CallParse ==
    \E model \in InvalidModels \cup ModelNames, envelope \in Envelopes :
        \E given \in EventsFor(envelope), asText \in BOOLEAN :
            /\ Idle
            /\ asText => envelope = NoEnvelope
            /\ LET event == IF asText THEN Encoded(json_dumps(given.body)) ELSE given
                   handler == [via |-> "parse", model |-> model, hint |-> None, param |-> "event"]
               IN parser' = Call(handler, event, envelope, parse(event, model, envelope), FALSE)
            /\ UNCHANGED <<cfvars, inv>>

\* The call returns or raises to the caller.
Return ==
    /\ ~Idle
    /\ parser' = NoCall
    /\ UNCHANGED <<cfvars, inv>>

ParserInit ==
    /\ Init
    /\ payload = EmptyDict
    /\ top = View("CloudFrontEvent", 0, "event")

ParserNext == InvokeHandler \/ CallParse \/ Return

ParserSpec == ParserInit /\ [][ParserNext]_vars

(***************************************************************************)
(* The steps of the two invocations.                                       *)
(***************************************************************************)
\* Invocation i obtains a section view from its record view.
InvSection ==
    \E i \in Invocations, sect \in Sections :
        /\ LET r == SectionView(inv.rec[i], inv.data[SelfData(i)], sect)
           IN inv' = [inv EXCEPT !.who = i, !.last = r,
                        !.held[i] = IF r.kind = "ok" THEN View(r.value, i, sect) ELSE @]
        /\ UNCHANGED <<cfvars, parser>>

\* Invocation i reads a property of the section view it holds.
InvRead ==
    \E i \in Invocations :
        /\ inv.held[i].sect \in Sections
        /\ \E name \in Getters(inv.held[i].cls) :
            LET on == inv.held[i]
                d == inv.data[SelfData(i)]["cf"][on.sect]
            IN inv' = [inv EXCEPT !.who = i, !.last = Get(on, d, name),
                        !.data[SelfData(i)]["cf"][on.sect] = AfterGet(on, d, name)]
        /\ UNCHANGED <<cfvars, parser>>

\* Invocation i assigns to a property of the section view it holds.
InvWrite ==
    \E i \in Invocations :
        /\ inv.held[i].sect \in Sections
        /\ \E name \in Setters(inv.held[i].cls), value \in WriteValues :
            LET on == inv.held[i]
                d == inv.data[SelfData(i)]["cf"][on.sect]
                a == inv.alone[i]["cf"][on.sect]
                old == IF SetterKey(name) \in DOMAIN d THEN d[SetterKey(name)] ELSE Absent
            IN IF name = "body_encoding" /\ body_encoding_rejects(value)
               THEN /\ inv' = [inv EXCEPT !.who = i,
                            !.last = [Raise(name, on, "ValueError", body_encoding_message(value))
                                        EXCEPT !.call = "set", !.arg = value, !.old = old],
                            !.data[SelfData(i)]["cf"][on.sect] = body_encoding_refused(d, value),
                            !.alone[i]["cf"][on.sect] = body_encoding_refused(a, value)]
                    /\ UNCHANGED writes
               ELSE /\ writes < MaxWrites
                    /\ inv' = [inv EXCEPT !.who = i,
                            !.last = [Result(name, on, "ok", None)
                                        EXCEPT !.call = "set", !.arg = value, !.old = old],
                            !.data[SelfData(i)]["cf"][on.sect] = Set(on, d, name, value),
                            !.alone[i]["cf"][on.sect] = Set(on, a, name, value)]
                    /\ writes' = writes + 1
        /\ UNCHANGED <<payload, opts, top, view, result, parser>>

InvInit ==
    /\ opts = ClassOpts
    /\ payload = EmptyDict
    /\ top = View("CloudFrontEvent", 0, "event")
    /\ view = top
    /\ result = [Result("__init__", top, "ok", top.cls) EXCEPT !.call = "new"]
    /\ writes = 0
    /\ parser = NoCall
    /\ \E c1 \in InvocationClasses, c2 \in OtherInvocationClasses : inv = Started(c1, c2)

InvNext == InvSection \/ InvRead \/ InvWrite

InvSpec == InvInit /\ [][InvNext]_vars

(***************************************************************************)
(* Properties.                                                             *)
(***************************************************************************)
ConfiguredRecordClasses == {c \in RecordClasses : RecordMetaEvent(c) \in Events}
ConfiguredEventClasses == {c \in EventClasses : EventMetaEvent(c) \in Events}

\* The record class through which the caller reaches the sections of a
\* record: the class of the record view it constructed, or the record type
\* of the event view it constructed.
OwnerRecordClass ==
    IF top.sect = "record" THEN top.cls
    ELSE IF top.sect = "event" THEN opts[top.cls].record_type
    ELSE None

\* The last operation read `origin` on a request view obtained from a record.
OriginReadOfRecord ==
    /\ result.call = "get"
    /\ result.op = "origin"
    /\ result.on.sect = "request"
    /\ OwnerRecordClass \in RecordClasses

\* The (request-view type, response-view type) pair of each discriminator.
PairOf(event) ==
    CASE event = "viewer-request" -> <<"CloudFrontViewerRequest", None>>
      [] event = "origin-request" -> <<"CloudFrontOriginRequest", None>>
      [] event = "origin-response" -> <<"CloudFrontOriginRequest", "CloudFrontOriginResponse">>
      [] event = "viewer-response" -> <<"CloudFrontViewerRequest", "CloudFrontViewerResponse">>

\* C1: the options of a record class configured with one of the four
\* discriminators hold exactly the (request type, response type) pair of that
\* discriminator, and whenever cf_request or cf_response of such a record
\* returns, it returns a view of exactly that type over the record's section.
C1_RecordTable ==
    /\ \A c \in ConfiguredRecordClasses :
        <<opts[c].request_type, opts[c].response_type>> = PairOf(RecordMetaEvent(c))
    /\ (result.op = "cf_request" /\ result.kind = "ok" /\ result.on.cls \in ConfiguredRecordClasses)
        => /\ result.value = PairOf(RecordMetaEvent(result.on.cls))[1]
           /\ view = View(result.value, result.on.rec, "request")
    /\ (result.op = "cf_response" /\ result.kind = "ok" /\ result.on.cls \in ConfiguredRecordClasses)
        => /\ result.value = PairOf(RecordMetaEvent(result.on.cls))[2]
           /\ result.value # None
           /\ view = View(result.value, result.on.rec, "response")

C1_Witness ==
    /\ result.op = "cf_request"
    /\ result.on.cls = "CloudFrontOriginResponseRecord"
    /\ result.kind = "ok"
    /\ view.cls = "CloudFrontOriginRequest"

\* The record class each discriminator selects at the event level.
RecordClassOf(event) ==
    CASE event = "viewer-request" -> "CloudFrontViewerRequestRecord"
      [] event = "origin-request" -> "CloudFrontOriginRequestRecord"
      [] event = "origin-response" -> "CloudFrontOriginResponseRecord"
      [] event = "viewer-response" -> "CloudFrontViewerResponseRecord"

\* C2: whenever `record` of an event view returns, the event class is
\* configured with one of the four discriminators and the view returned is of
\* the record class configured with the same discriminator.
C2_EventRecordAgree ==
    (result.op = "record" /\ result.kind = "ok")
        => /\ result.on.cls \in ConfiguredEventClasses
           /\ result.value = RecordClassOf(EventMetaEvent(result.on.cls))
           /\ RecordMetaEvent(result.value) = EventMetaEvent(result.on.cls)
           /\ view.cls = result.value
           /\ view.sect = "record"

C2_Witness ==
    /\ result.op = "record"
    /\ result.on.cls = "CloudFrontOriginRequestEvent"
    /\ result.kind = "ok"
    /\ view.cls = "CloudFrontOriginRequestRecord"

\* C3: cf_response on a viewer-request or origin-request record raises
\* NotImplementedError and returns nothing, whatever the payload holds.
C3_NoResponseView ==
    (result.op = "cf_response"
        /\ RecordMetaEvent(result.on.cls) \in {"viewer-request", "origin-request"})
        => /\ result.kind = "NotImplementedError"
           /\ result.value = NoValue
           /\ view.sect # "response"

\* The record has no "cf" key at all.
C3_Witness ==
    /\ result.op = "cf_response"
    /\ result.on.cls = "CloudFrontViewerRequestRecord"
    /\ result.kind = "NotImplementedError"
    /\ "cf" \notin DOMAIN Data(result.on)

\* The record holds a cf.response section.
C3_WitnessWithResponse ==
    /\ result.op = "cf_response"
    /\ result.on.cls = "CloudFrontOriginRequestRecord"
    /\ result.kind = "NotImplementedError"
    /\ "cf" \in DOMAIN Data(result.on)
    /\ "response" \in DOMAIN Data(result.on)["cf"]

\* C4: `origin` on the request view of a viewer-request record raises
\* TypeError and returns nothing, with or without an "origin" key; on the
\* request view of an origin-request record it returns the value under
\* "origin" when the key is there.
C4_Origin ==
    OriginReadOfRecord =>
        /\ RecordMetaEvent(OwnerRecordClass) = "viewer-request"
            => result.kind = "TypeError" /\ result.value = NoValue
        /\ (RecordMetaEvent(OwnerRecordClass) = "origin-request"
                /\ "origin" \in DOMAIN Data(result.on))
            => result.kind = "ok" /\ result.value = Data(result.on)["origin"]

C4_Witness ==
    /\ OriginReadOfRecord
    /\ RecordMetaEvent(OwnerRecordClass) = "viewer-request"
    /\ "origin" \in DOMAIN Data(result.on)
    /\ result.kind = "TypeError"

\* C5 as stated: `origin` on the request view of a record configured with any
\* discriminator other than origin-request raises TypeError.
C5_OriginOnlyOriginRequest ==
    (OriginReadOfRecord
        /\ RecordMetaEvent(OwnerRecordClass) \in Events \ {"origin-request"})
        => result.kind = "TypeError"

\* C5 amended: `origin` raises TypeError on the request view of a record
\* configured with viewer-request or viewer-response; on the request view of
\* a record configured with origin-request or origin-response it does not: it
\* reads the "origin" key.
C5_OriginByRequestType ==
    OriginReadOfRecord =>
        /\ RecordMetaEvent(OwnerRecordClass) \in {"viewer-request", "viewer-response"}
            => result.kind = "TypeError" /\ result.value = NoValue
        /\ RecordMetaEvent(OwnerRecordClass) \in {"origin-request", "origin-response"}
            => IF "origin" \in DOMAIN Data(result.on)
               THEN result.kind = "ok" /\ result.value = Data(result.on)["origin"]
               ELSE result.kind = "KeyError"

C5_Witness ==
    /\ OriginReadOfRecord
    /\ RecordMetaEvent(OwnerRecordClass) = "viewer-response"
    /\ result.kind = "TypeError"

\* The origin-response case the statement of C5 gets wrong.
C5_WitnessOriginResponse ==
    /\ OriginReadOfRecord
    /\ RecordMetaEvent(OwnerRecordClass) = "origin-response"
    /\ result.kind = "ok"
    /\ result.value = "<origin>"

UnconfiguredRecordClasses == RecordClasses \ ConfiguredRecordClasses
UnconfiguredEventClasses == EventClasses \ ConfiguredEventClasses

\* C6: a record or event class whose discriminator is absent or unsupported
\* has no type configured; constructing a view never fails; on such a class
\* cf_request, cf_response and record raise NotImplementedError, and nothing
\* else does.
C6_UnconfiguredFailsOnAccess ==
    /\ \A c \in UnconfiguredRecordClasses :
        opts[c].request_type = None /\ opts[c].response_type = None
    /\ \A c \in UnconfiguredEventClasses : opts[c].record_type = None
    /\ result.call = "new" => result.kind = "ok"
    /\ result.on.cls \in UnconfiguredRecordClasses \cup UnconfiguredEventClasses
        => (result.kind = "NotImplementedError"
                <=> result.op \in {"cf_request", "cf_response", "record"})
    /\ result.kind = "NotImplementedError"
        => result.op \in {"cf_request", "cf_response", "record"}

C6_Witness ==
    /\ result.op = "cf_request"
    /\ result.on.cls = "UserRecord"
    /\ result.kind = "NotImplementedError"
    /\ "cf" \in DOMAIN Data(result.on)
    /\ "request" \in DOMAIN Data(result.on)["cf"]

\* The keys of the view's mapping a property getter reads (none for the
\* viewer request's origin, which raises without reading).
PropertyKeys(cls, name) ==
    CASE name = "distribution_domain_name" -> {"distributionDomainName"}
      [] name = "distribution_id" -> {"distributionID", "distributionId"}
      [] name = "event_type" -> {"eventType"}
      [] name = "request_id" -> {"requestId"}
      [] name = "client_ip" -> {"clientIp"}
      [] name = "body_encoding" -> {"bodyEncoding"}
      [] name = "status_description" -> {"statusDescription"}
      [] name = "origin" /\ cls = "CloudFrontViewerRequest" -> {}
      [] OTHER -> {name}

\* The last operation read a property of a leaf view.
LeafRead == result.call = "get" /\ result.on.sect \in Sections

KeysAbsent ==
    /\ PropertyKeys(result.on.cls, result.op) # {}
    /\ PropertyKeys(result.on.cls, result.op) \cap DOMAIN Data(result.on) = {}

DefaultsToNone == result.on.cls \in ResponseClasses /\ result.op \in {"body", "body_encoding"}

\* C7: a property getter whose key is absent from the view's mapping raises
\* KeyError, except the response's body and body_encoding, which return None;
\* no getter returns None otherwise.  The accessors of a configured record or
\* event that return views raise KeyError as well when the key they read is
\* absent.
C7_MissingKey ==
    /\ (LeafRead /\ KeysAbsent)
        => IF DefaultsToNone
           THEN result.kind = "ok" /\ result.value = None
           ELSE result.kind = "KeyError" /\ result.value = NoValue
    /\ (LeafRead /\ result.kind = "ok" /\ result.value = None)
        => DefaultsToNone /\ KeysAbsent
    /\ (result.op = "cf_config" /\ "cf" \notin DOMAIN Data(result.on))
        => result.kind = "KeyError"
    /\ (result.op \in {"cf_config", "cf_request", "cf_response"}
            /\ result.kind = "ok")
        => /\ "cf" \in DOMAIN Data(result.on)
           /\ view.sect \in DOMAIN Data(result.on)["cf"]
    /\ (result.op = "record" /\ result.on.cls \in ConfiguredEventClasses
            /\ "Records" \notin DOMAIN Data(result.on))
        => result.kind = "KeyError"

C7_Witness ==
    /\ LeafRead
    /\ result.on.cls \in RequestClasses
    /\ result.op = "body"
    /\ "body" \notin DOMAIN Data(result.on)
    /\ result.kind = "KeyError"

\* The response's body with no "body" key.
C7_WitnessDefault ==
    /\ LeafRead
    /\ result.on.cls \in ResponseClasses
    /\ result.op = "body"
    /\ "body" \notin DOMAIN Data(result.on)
    /\ result.value = None

\* The last operation assigned to a property of a leaf view.
LeafWrite == result.call = "set" /\ result.on.sect \in Sections

\* What a read of the property just assigned returns, on the same view.
ReadBack == Get(result.on, Data(result.on), result.op)

\* C8: assigning "text" or "base64" to body_encoding succeeds and a read of
\* body_encoding then returns that value; assigning anything else raises
\* ValueError with a message that names the value and both allowed values.
C8_BodyEncoding ==
    (LeafWrite /\ result.op = "body_encoding")
        => IF result.arg \in {"text", "base64"}
           THEN /\ result.kind = "ok"
                /\ ReadBack.kind = "ok"
                /\ ReadBack.value = result.arg
           ELSE /\ result.kind = "ValueError"
                /\ \A s \in {result.arg, "text", "base64"} :
                    \E i \in 1..Len(result.msg) : result.msg[i] = s

C8_Witness ==
    /\ LeafWrite
    /\ result.op = "body_encoding"
    /\ result.arg = "base64"
    /\ result.kind = "ok"
    /\ Data(result.on)["bodyEncoding"] = "base64"

\* An assignment that is refused.
C8_WitnessRejected ==
    /\ LeafWrite
    /\ result.op = "body_encoding"
    /\ result.arg = "gzip"
    /\ result.kind = "ValueError"

\* C9: after an assignment to uri, querystring, body, status or
\* status_description, a read of the same property on the same view returns
\* the value assigned, whether or not the key was there before.
C9_RoundTrip ==
    (LeafWrite /\ result.op \in {"uri", "querystring", "body", "status", "status_description"})
        => /\ result.kind = "ok"
           /\ ReadBack.kind = "ok"
           /\ ReadBack.value = result.arg

\* The key was absent before the assignment.
C9_Witness ==
    /\ LeafWrite
    /\ result.op = "status_description"
    /\ result.old = Absent
    /\ result.kind = "ok"
    /\ ReadBack.value = "gzip"

\* C10: `record` of a configured event view over a payload with a Records
\* sequence returns a view over the first element of the sequence, and raises
\* (returns nothing) when the sequence is empty.
C10_FirstRecord ==
    (result.op = "record" /\ result.on.cls \in ConfiguredEventClasses
        /\ "Records" \in DOMAIN payload)
        => IF Len(payload["Records"]) = 0
           THEN result.kind = "IndexError" /\ result.value = NoValue
           ELSE /\ result.kind = "ok"
                /\ view = View(opts[result.on.cls].record_type, 1, "record")
                /\ Data(view) = Head(payload["Records"])

\* Two records, the first of which differs from the second.
C10_Witness ==
    /\ result.op = "record"
    /\ result.kind = "ok"
    /\ Len(payload["Records"]) = 2
    /\ DOMAIN payload["Records"][1] # DOMAIN payload["Records"][2]
    /\ Data(view) = payload["Records"][1]

\* No record at all.
C10_WitnessEmpty ==
    /\ result.op = "record"
    /\ result.on.cls \in ConfiguredEventClasses
    /\ "Records" \in DOMAIN payload
    /\ Len(payload["Records"]) = 0
    /\ result.kind = "IndexError"

\* The wrapped records `records` is to yield over the payload: one per
\* element of Records, in order, of the type `record` returns.
WrappedRecords(cls) ==
    [i \in 1..Len(payload["Records"]) |-> View(opts[cls].record_type, i, "record")]

\* C11: `records` of a configured event view yields exactly one wrapped
\* record per element of the payload's Records sequence, in the original
\* order, each of the record type `record` returns, and then terminates.
C11_RecordsYieldsEach ==
    (result.op = "records" /\ result.on.cls \in ConfiguredEventClasses
        /\ "Records" \in DOMAIN payload)
        => /\ result.kind = "ok"
           /\ result.value = WrappedRecords(result.on.cls)

\* C12: accessing `records` of a configured event view hands the consumer a
\* sequence to request elements from and constructs no wrapped record by
\* itself: the view the caller holds is the one it held before.
C12_RecordsLazy ==
    [][(result'.op = "records" /\ result'.on.cls \in ConfiguredEventClasses)
          => (result'.kind = "ok" /\ view' = view)]_vars

\* C13: no read operation changes the caller's payload: a step that changes
\* it is a setter's assignment; view constructions, record, cf_config,
\* cf_request, cf_response and every property getter, failing or not, leave
\* it as it was.
C13_ReadsLeavePayload ==
    [][payload' # payload => (result'.call = "set" /\ result'.kind = "ok")]_vars

\* A getter that answers with its default for a missing key has run, and the
\* key is still missing.
C13_Witness ==
    /\ LeafRead
    /\ result.on.cls \in ResponseClasses
    /\ result.op = "body"
    /\ result.kind = "ok"
    /\ result.value = None
    /\ "body" \notin DOMAIN Data(result.on)
    /\ writes = 0

\* A getter has failed on a missing key.
C13_WitnessFailed ==
    /\ LeafRead
    /\ result.kind = "KeyError"
    /\ writes = 0

\* The key each setter is to replace.
WrittenKey(name) ==
    CASE name = "uri" -> "uri"
      [] name = "querystring" -> "querystring"
      [] name = "body" -> "body"
      [] name = "body_encoding" -> "bodyEncoding"
      [] name = "status" -> "status"
      [] name = "status_description" -> "statusDescription"

\* A record class whose section views are of the class `leaf`.
OwnerRecordClassOf(leaf) ==
    CHOOSE rc \in ConfiguredRecordClasses :
        leaf \in {opts[rc].request_type, opts[rc].response_type}

\* The section accessor of a record view that leads to the section `sect`.
SectionAccess(rv, sect) ==
    IF sect = "request" THEN cf_request(rv, Data(rv)) ELSE cf_response(rv, Data(rv))

\* After a write: every view of the written section obtained again from a
\* view of the same record reads the written value.
RereadsWritten ==
    /\ SectionAccess(View(OwnerRecordClassOf(result.on.cls), result.on.rec, "record"),
                     result.on.sect).kind = "ok"
    /\ \A rc \in RecordClasses :
          LET rv == View(rc, result.on.rec, "record")
              r == SectionAccess(rv, result.on.sect)
              again == View(r.value, result.on.rec, result.on.sect)
          IN r.kind = "ok"
              => /\ Get(again, Data(again), result.op).kind = "ok"
                 /\ Get(again, Data(again), result.op).value = result.arg

\* C14: a write through a setter replaces exactly the setter's key in the
\* caller's mapping and leaves every other key, section and record as it
\* was; a view obtained afterwards from the same record reads the written
\* value.
C14_SetterWritesItsKey ==
    [][(result'.call = "set" /\ result'.kind = "ok")
          => LET on == result'.on
                 key == WrittenKey(result'.op)
                 before == payload["Records"][on.rec]["cf"][on.sect]
                 after == payload'["Records"][on.rec]["cf"][on.sect]
             IN /\ DOMAIN after = DOMAIN before \cup {key}
                /\ after[key] = result'.arg
                /\ \A k \in DOMAIN before \ {key} : after[k] = before[k]
                /\ payload' = [payload EXCEPT !["Records"][on.rec]["cf"][on.sect] = after]
                /\ RereadsWritten']_vars

\* A request reached from an event view had its uri replaced by a value it
\* did not hold, next to other keys.
C14_Witness ==
    /\ LeafWrite
    /\ result.kind = "ok"
    /\ result.op = "uri"
    /\ top.sect = "event"
    /\ result.old \notin {Absent, result.arg}
    /\ Data(result.on)["uri"] = result.arg
    /\ DOMAIN Data(result.on) # {"uri"}

\* The accessors that return a field of the payload as it is stored.
LiteralAccessors(sect) ==
    CASE sect = "config" -> {"distribution_domain_name", "distribution_id", "event_type", "request_id"}
      [] sect = "request" -> {"client_ip", "headers", "method", "querystring", "uri"}
      [] sect = "response" -> {"headers", "status", "status_description"}

\* The key of the field an accessor returns from the mapping d.
LiteralField(d, name) ==
    CASE name = "distribution_domain_name" -> "distributionDomainName"
      [] name = "distribution_id" ->
            IF "distributionID" \in DOMAIN d THEN "distributionID" ELSE "distributionId"
      [] name = "event_type" -> "eventType"
      [] name = "request_id" -> "requestId"
      [] name = "client_ip" -> "clientIp"
      [] name = "status_description" -> "statusDescription"
      [] OTHER -> name

\* C15: each configuration, request and response accessor returns the field
\* stored under its key in the wrapped section, whichever of the four
\* discriminators configured the view it was reached from.
C15_LiteralFields ==
    (LeafRead /\ result.op \in LiteralAccessors(result.on.sect))
        => LET d == Data(result.on)
               key == LiteralField(d, result.op)
           IN key \in DOMAIN d => (result.kind = "ok" /\ result.value = d[key])

\* The request id was read through an event view, for each discriminator in
\* turn (the payload's own eventType says origin-response throughout).
C15_WitnessOf(event) ==
    /\ top.sect = "event"
    /\ EventMetaEvent(top.cls) = event
    /\ LeafRead
    /\ result.op = "request_id"
    /\ result.value = FixtureConfig.requestId

C15_Witness == C15_WitnessOf("viewer-response")
C15_WitnessViewerRequest == C15_WitnessOf("viewer-request")
C15_WitnessOriginRequest == C15_WitnessOf("origin-request")
C15_WitnessOriginResponse == C15_WitnessOf("origin-response")

\* The event type was read from a configuration holding both id keys.
C15_WitnessEventType ==
    /\ LeafRead
    /\ result.op = "event_type"
    /\ result.kind = "ok"
    /\ {"distributionID", "distributionId", "requestId"} \subseteq DOMAIN Data(result.on)

\* The sub-view type the class of the view `on` was given, when the class
\* was defined, for the accessor `op`.
DefinedType(on, op) ==
    CASE op = "record" -> ClassOpts[on.cls].record_type
      [] op = "cf_request" -> ClassOpts[on.cls].request_type
      [] op = "cf_response" -> ClassOpts[on.cls].response_type

\* C20: the configuration table is the one computed when the classes were
\* defined, whatever operations ran since; every view of a class selects the
\* sub-view types that table gives its class, whatever payload it wraps and
\* whatever eventType the payload states.
C20_TableFixed ==
    /\ opts = ClassOpts
    /\ (result.op \in {"record", "cf_request", "cf_response"} /\ result.kind = "ok")
        => /\ result.value = DefinedType(result.on, result.op)
           /\ view.cls = DefinedType(result.on, result.op)

\* After a write, a viewer-request record over a payload that calls itself an
\* origin-response selected its request view.
C20_Witness ==
    /\ result.op = "cf_request"
    /\ result.kind = "ok"
    /\ result.on.cls = "CloudFrontViewerRequestRecord"
    /\ "config" \in DOMAIN Data(result.on)["cf"]
    /\ "eventType" \in DOMAIN Data(result.on)["cf"]["config"]
    /\ Data(result.on)["cf"]["config"]["eventType"] = "origin-response"
    /\ writes > 0

\* The last call went through the decorator, or through either entry point.
Decorated == parser.handler.via = "event_parser"
Called == parser.handler.via \in {"event_parser", "parse"}

\* C16: a call whose model argument is False, [] or (), or a decorated call
\* with no model argument and no type hint on the handler's parameter, fails
\* with InvalidModelTypeError, and the handler's body is not run.
C16_InvalidModel ==
    (Called /\ (\/ parser.handler.model \in {"False", "[]", "()"}
                \/ (parser.handler.model = NotGiven /\ parser.handler.hint = None)))
        => /\ parser.outcome.kind = "InvalidModelTypeError"
           /\ ~parser.ran
           /\ parser.received = EmptyDict

\* model=False on a handler whose parameter is hinted with a model, called
\* with an event that fits the hint.
C16_Witness ==
    /\ Decorated
    /\ parser.handler.model = "False"
    /\ parser.handler.hint = "StrictModel"
    /\ parser.event.t = "dict"
    /\ parser.event.body = [age |-> PyInt("30"), name |-> PyStr("Ann")]
    /\ parser.outcome.kind = "InvalidModelTypeError"

\* No model and no hint.
C16_WitnessNoModel ==
    /\ Decorated
    /\ parser.handler.model = NotGiven
    /\ parser.handler.hint = None
    /\ parser.outcome.kind = "InvalidModelTypeError"
    /\ ~parser.ran

\* The model the last call validated against, and the mapping it validated.
UsedModel ==
    IF parser.handler.model = NotGiven THEN parser.handler.hint ELSE parser.handler.model
PassedMapping ==
    IF parser.event.t = "str" THEN json_loads(parser.event.body) ELSE parser.event.body

\* The value v is no int and no text of one; the value v is no str.
NotAnInt(v) == ~(v.t = "int" \/ (v.t = "str" /\ v.v \in {"30", "123", "7"}))
NotAStr(v) == v.t # "str"

\* The fields of StrictModel (age: int, name: str) and of Shopping (id: int,
\* description: str) the mapping m does not satisfy.
Offending(model, m) ==
    IF model = "StrictModel"
    THEN {f \in {"age"} : "age" \notin DOMAIN m \/ NotAnInt(m["age"])}
            \cup {f \in {"name"} : "name" \notin DOMAIN m \/ NotAStr(m["name"])}
    ELSE {f \in {"id"} : "id" \notin DOMAIN m \/ NotAnInt(m["id"])}
            \cup {f \in {"description"} :
                    "description" \notin DOMAIN m \/ NotAStr(m["description"])}

\* C17: a call ends either with a validated instance, which a decorated
\* handler is run with, or with a failure and the handler not run, never
\* both; when the payload does not satisfy the model the failure is a
\* ValidationError that names every offending field, each with the
\* constraint it violated.
C17_ValidationFailure ==
    Called =>
        /\ \/ (parser.outcome.kind = "ok") = (parser.outcome.errors = {})
           \/ parser.outcome.kind = "InvalidModelTypeError"
        /\ parser.outcome.kind # "ok" => (~parser.ran /\ parser.outcome.instance = EmptyDict)
        /\ parser.ran = (Decorated /\ parser.outcome.kind = "ok")
        /\ (UsedModel \in {"StrictModel", "Shopping"} /\ parser.envelope = NoEnvelope)
            => LET bad == Offending(UsedModel, PassedMapping)
               IN /\ {e.field : e \in parser.outcome.errors} = bad
                  /\ \A e \in parser.outcome.errors :
                        e.type = IF e.field \in DOMAIN PassedMapping
                                 THEN (IF e.field \in {"age", "id"}
                                       THEN (IF PassedMapping[e.field].t = "str"
                                             THEN "int_parsing" ELSE "int_type")
                                       ELSE "string_type")
                                 ELSE "missing"
                  /\ bad # {} => (parser.outcome.kind = "ValidationError" /\ ~parser.ran)

\* {"age": "not_a_number", "name": 123} against StrictModel: both fields are
\* named.
C17_Witness ==
    /\ Decorated
    /\ parser.handler.model = "StrictModel"
    /\ parser.event.t = "dict"
    /\ parser.event.body = [age |-> PyStr("not_a_number"), name |-> PyInt("123")]
    /\ parser.outcome.kind = "ValidationError"
    /\ {e.field : e \in parser.outcome.errors} = {"age", "name"}
    /\ ~parser.ran

\* parse({"id": "forgot-the-id", ...}, model=Shopping)
C17_WitnessParse ==
    /\ parser.handler.via = "parse"
    /\ parser.handler.model = "Shopping"
    /\ "id" \in DOMAIN PassedMapping
    /\ PassedMapping["id"] = PyStr("forgot-the-id")
    /\ parser.outcome.kind = "ValidationError"
    /\ {e.field : e \in parser.outcome.errors} = {"id"}

\* The bodies of the SQS records of the last call, decoded.
Bodies ==
    [i \in DOMAIN parser.event.body["Records"] |->
        json_loads(parser.event.body["Records"][i].body)]

\* The text the mapping m encodes for a field: under the field's name or
\* under its alias, "null" when under neither.
EncodedText(m, name, alias) ==
    IF alias \in DOMAIN m THEN m[alias].v
    ELSE IF name \in DOMAIN m THEN m[name].v
    ELSE "null"

\* The alias of each field of EventBridgeModel.
AliasOf(name) ==
    CASE name = "detail_type" -> "detail-type"
      [] name = "replay_name" -> "replay-name"
      [] OTHER -> name

\* C18: parsing an SQS event with the SQS envelope and EventBridgeModel
\* yields, when it succeeds, one instance per record, in order, whose
\* fields equal the values encoded in the record's body; and it succeeds on
\* bodies that are the JSON dump of an EventBridgeModel instance, written
\* with the field names detail_type and replay_name, giving back the
\* instance.
C18_EnvelopeRoundTrip ==
    (Called /\ parser.envelope = "SqsEnvelope" /\ UsedModel = "EventBridgeModel")
        => /\ parser.outcome.kind = "ok"
                => /\ Len(parser.outcome.instance) = Len(parser.event.body["Records"])
                   /\ \A i \in DOMAIN Bodies :
                        /\ DOMAIN parser.outcome.instance[i] = DOMAIN EventBridgeInstance
                        /\ \A n \in DOMAIN EventBridgeInstance :
                              parser.outcome.instance[i][n].v = EncodedText(Bodies[i], n, AliasOf(n))
           /\ (\A i \in DOMAIN Bodies :
                    parser.event.body["Records"][i].body = model_dump_json(EventBridgeInstance))
                => /\ parser.outcome.kind = "ok"
                   /\ \A i \in DOMAIN Bodies : parser.outcome.instance[i] = EventBridgeInstance

\* Two records, the first dumped from an instance, the second as EventBridge
\* delivers it: two instances, in that order.
C18_Witness ==
    /\ parser.handler.via = "parse"
    /\ parser.envelope = "SqsEnvelope"
    /\ parser.handler.model = "EventBridgeModel"
    /\ Len(parser.event.body["Records"]) = 2
    /\ parser.event.body["Records"][1].body = model_dump_json(EventBridgeInstance)
    /\ "detail-type" \in DOMAIN Bodies[2]
    /\ parser.outcome.kind = "ok"
    /\ parser.outcome.instance[1] = EventBridgeInstance
    /\ parser.outcome.instance[2].replay_name = PyStr("replay")

\* The mapping m holds only values JSON can write and read back as they are.
JsonNative(m) == \A k \in DOMAIN m : m[k].t # "datetime"

\* The outcome of the last call had it been made with `event` instead.
OutcomeWith(event) ==
    IF Decorated THEN event_parser(parser.handler, event, parser.envelope).outcome
    ELSE parse(event, parser.handler.model, parser.envelope)

\* The outcome of validating the mapping m against the model of the name.
OutcomeOf(model, m) == validate_python(model, m)

\* C19: a call with the JSON text of a mapping ends as the call with the
\* mapping does, with the same instance or the same failure; a decorated
\* call without model argument validates with the model its first
\* parameter is hinted with, whatever the parameter's name.
C19_TextOrMapping ==
    (Called /\ parser.envelope = NoEnvelope)
        => /\ parser.event.t = "str"
                => parser.outcome = OutcomeWith(Mapping(json_loads(parser.event.body)))
           /\ (parser.event.t = "dict" /\ JsonNative(parser.event.body))
                => parser.outcome = OutcomeWith(Encoded(json_dumps(parser.event.body)))
           /\ (Decorated /\ parser.handler.model = NotGiven /\ parser.handler.hint \in ModelNames)
                => /\ parser.outcome = OutcomeOf(parser.handler.hint, PassedMapping)
                   /\ parser.ran = (parser.outcome.kind = "ok")

\* The text of a mapping that fits was validated into an instance.
C19_Witness ==
    /\ Decorated
    /\ parser.handler.model = "StrictModel"
    /\ parser.event.t = "str"
    /\ Len(parser.event.body) = 2
    /\ parser.outcome.kind = "ok"
    /\ parser.received = [age |-> PyInt("30"), name |-> PyStr("Ann")]

\* def handler(evt: StrictModel, _): the hint of a parameter not called
\* event gave the model.
C19_WitnessHint ==
    /\ Decorated
    /\ parser.handler.model = NotGiven
    /\ parser.handler.hint = "StrictModel"
    /\ parser.handler.param = "evt"
    /\ parser.ran
    /\ parser.received = [age |-> PyInt("30"), name |-> PyStr("Ann")]

\* C23: distribution_id returns the value under "distributionID" whenever
\* that key is present, also next to "distributionId"; otherwise the value
\* under "distributionId"; and fails with a KeyError only when the mapping
\* holds neither key.
C23_DistributionId ==
    (LeafRead /\ result.op = "distribution_id")
        => LET d == Data(result.on)
           IN IF "distributionID" \in DOMAIN d
              THEN result.kind = "ok" /\ result.value = d["distributionID"]
              ELSE IF "distributionId" \in DOMAIN d
              THEN result.kind = "ok" /\ result.value = d["distributionId"]
              ELSE result.kind = "KeyError" /\ result.value = NoValue

\* Both keys present, holding different values: the read gave the first.
C23_Witness ==
    /\ LeafRead
    /\ result.op = "distribution_id"
    /\ {"distributionID", "distributionId"} \subseteq DOMAIN Data(result.on)
    /\ Data(result.on)["distributionID"] # Data(result.on)["distributionId"]
    /\ result.value = "EDFDVBD6EXAMPLE"

\* Only the second key present.
C23_WitnessFallback ==
    /\ LeafRead
    /\ result.op = "distribution_id"
    /\ "distributionID" \notin DOMAIN Data(result.on)
    /\ "distributionId" \in DOMAIN Data(result.on)
    /\ result.value = "EDFDVBD6EXAMPLE-Id"

\* Neither key present.
C23_WitnessNeither ==
    /\ LeafRead
    /\ result.op = "distribution_id"
    /\ DOMAIN Data(result.on) \cap {"distributionID", "distributionId"} = {}
    /\ result.kind = "KeyError"

\* C22: a refused assignment to body_encoding (a value other than "text" and
\* "base64") leaves the caller's mapping as it was: every key holds what it
\* held, and a read of body_encoding returns what it returned before, the
\* value or None.
C22_RefusedWriteNoEffect ==
    [][(result'.call = "set" /\ result'.op = "body_encoding"
            /\ result'.arg \notin {"text", "base64"})
          => LET on == result'.on
                 before == payload["Records"][on.rec]["cf"][on.sect]
                 after == payload'["Records"][on.rec]["cf"][on.sect]
             IN /\ result'.kind = "ValueError"
                /\ payload' = payload
                /\ body_encoding(on, after) = body_encoding(on, before)
                /\ result'.old = IF "bodyEncoding" \in DOMAIN after
                                 THEN after["bodyEncoding"] ELSE Absent]_vars

\* The assignment was refused over a mapping without the key: a read still
\* returns None.
C22_Witness ==
    /\ LeafWrite
    /\ result.op = "body_encoding"
    /\ result.kind = "ValueError"
    /\ "bodyEncoding" \notin DOMAIN Data(result.on)
    /\ ReadBack.value = None
    /\ DOMAIN Data(result.on) # {}

\* The assignment was refused over a mapping holding an encoding written
\* before: it still holds it.
C22_WitnessKept ==
    /\ LeafWrite
    /\ result.op = "body_encoding"
    /\ result.kind = "ValueError"
    /\ "bodyEncoding" \in DOMAIN Data(result.on)
    /\ Data(result.on)["bodyEncoding"] \in {"text", "base64"}

\* The section a leaf class is a view of.
SectionOf(c) ==
    IF c \in RequestClasses THEN "request"
    ELSE IF c \in ResponseClasses THEN "response" ELSE "config"

\* What the step `last` of an invocation returns over the record mapping d,
\* taken from the record view rec and the section view on.
Replayed(last, rec, d) ==
    IF last.op \in {"cf_config", "cf_request", "cf_response"}
    THEN SectionView(rec, d, CASE last.op = "cf_config" -> "config"
                               [] last.op = "cf_request" -> "request"
                               [] last.op = "cf_response" -> "response")
    ELSE Get(last.on, d["cf"][last.on.sect], last.op)

\* C21: the two invocations share nothing they write.  Whatever steps the
\* two have taken, in whatever order, the mapping of each is what its own
\* writes alone make of it, so every accessor of a view returns what it
\* returns when its invocation runs alone, as did the last step taken; and
\* the configuration table is the one the classes were defined with.
C21_NoSharedState ==
    inv.who \in Invocations
        => /\ opts = ClassOpts
           /\ \A j \in Invocations :
                /\ inv.data[j] = inv.alone[j]
                /\ \A c \in LeafClasses :
                      \A name \in Getters(c) :
                          LET on == View(c, j, SectionOf(c))
                          IN Get(on, inv.data[j]["cf"][on.sect], name)
                              = Get(on, inv.alone[j]["cf"][on.sect], name)
           /\ inv.last.call = "get"
                => inv.last = Replayed(inv.last, inv.rec[inv.who], inv.alone[inv.who])

\* The second invocation read the uri of its request after the first had
\* replaced the uri of its own: it read the value its mapping came with.
C21_Witness ==
    /\ inv.who = 2
    /\ inv.last.call = "get"
    /\ inv.last.op = "uri"
    /\ inv.last.value = FixtureRequest.uri
    /\ inv.data[1]["cf"]["request"]["uri"] # FixtureRequest.uri
    /\ inv.data[2] = FullRecord
====
